---- MODULE Spec2Model ----
(***************************************************************************)
(* Model of panopticon-2 (src/panopticon-2.py): a Discord client whose     *)
(* event handlers log users, guilds, channels, messages, edits and         *)
(* deletions into PostgreSQL through an asyncpg connection pool.           *)
(*                                                                         *)
(* Every handler is a coroutine: each `await` is a point where another    *)
(* handler may run, so a handler is a task that moves through              *)
(*   acquire -> exec (one step per conn.execute) -> end -> release.        *)
(* A transaction's statements are kept in the task's write set `tx` and    *)
(* reach the committed database `db` when the transaction block exits      *)
(* without an exception.                                                   *)
(*                                                                         *)
(* PostgreSQL as the statements meet it: constraints are evaluated when a  *)
(* statement executes, on the committed rows and the transaction's own     *)
(* writes; an insert on a key that another open transaction wrote waits    *)
(* for that transaction to end; BEGIN is part of the acquire step.  Any    *)
(* statement may also fail with an error of the database itself.  The      *)
(* database outlives the process: a specification may start on rows that   *)
(* an earlier run of the handlers committed.                               *)
(*                                                                         *)
(* Optional values (Python None) are sequences: << >> is None, <<x>> is x. *)
(* The columns filled by NOW() (last_updated) are not stored in the model. *)
(***************************************************************************)
EXTENDS Integers, Sequences, FiniteSets, TLC

VARIABLES connected, poolSize, pool, db, tasks, dispatched, last, selfUpserts,
          poolState, sessionOpen

vars == <<connected, poolSize, pool, db, tasks, dispatched, last, selfUpserts,
          poolState, sessionOpen>>

(***************************************************************************)
(* Bounds of the model.                                                    *)
(***************************************************************************)
\* events the gateway dispatches in one behaviour
MaxEvents == 2
\* the pool holds between one and MaxPool connections
MaxPool == 2

None == << >>
Some(x) == <<x>>

(***************************************************************************)
(* Gateway objects.                                                        *)
(***************************************************************************)
User(id, created_at, name, discriminator, bot) ==
    [id |-> id, created_at |-> created_at, name |-> name,
     discriminator |-> discriminator, bot |-> bot]

\* self.user: the bot's own identity
SelfUser == User(2, "t0", "panopticon", "d0", TRUE)

Guild(id, name) == [id |-> id, name |-> name]

NoGuild == Guild(0, "")

\* variant: "private" (discord.DMChannel), "guild" (TextChannel,
\* VoiceChannel, Thread) or "other" (any other channel class)
DMChannel(id, recipient) ==
    [variant |-> "private", id |-> id, recipient |-> recipient,
     guild |-> NoGuild, name |-> ""]

GuildChannel(id, guild, name) ==
    [variant |-> "guild", id |-> id, recipient |-> None,
     guild |-> guild, name |-> name]

OtherChannel(id) ==
    [variant |-> "other", id |-> id, recipient |-> None,
     guild |-> NoGuild, name |-> ""]

Embed(type, data) == [type |-> type, data |-> data]

Attachment(id, size, filename, url) ==
    [id |-> id, size |-> size, filename |-> filename, url |-> url]

Message(id, created_at, channel, author, content, embeds, attachments, edited_at) ==
    [id |-> id, created_at |-> created_at, channel |-> channel,
     author |-> author, content |-> content, embeds |-> embeds,
     attachments |-> attachments, edited_at |-> edited_at]

NoMessage == Message(0, "t0", OtherChannel(0), SelfUser, "", << >>, << >>, None)

(***************************************************************************)
(* get_rich_embed: the serialization of the first embed of type "rich".    *)
(* json.dumps(e.to_dict()) is the tagged text of the embed's fields.       *)
(***************************************************************************)
to_json(e) == <<"json", e.type, e.data>>

\* a scan that keeps the last embed of type "rich"
RECURSIVE first_rich_Last(_)
first_rich_Last(embeds) ==
    IF embeds = << >> THEN None
    ELSE IF first_rich_Last(Tail(embeds)) # None THEN first_rich_Last(Tail(embeds))
    ELSE IF Head(embeds).type = "rich" THEN to_json(Head(embeds))
    ELSE None

RECURSIVE first_rich(_)
first_rich(embeds) ==
    IF embeds = << >> THEN None
    ELSE IF Head(embeds).type = "rich" THEN to_json(Head(embeds))
    ELSE first_rich(Tail(embeds))

get_rich_embed(message) ==
    IF message.embeds # << >> THEN first_rich(message.embeds) ELSE None

(***************************************************************************)
(* The statements: a query and its arguments.                              *)
(***************************************************************************)
Stmt(q, args) == [q |-> q, args |-> args]

\* the ids in the order given
sorted2_Unsorted(a, b) == <<a, b>>

\* sorted((a, b))
sorted2(a, b) == IF a <= b THEN <<a, b>> ELSE <<b, a>>

db_add_user(user) ==
    << Stmt("user_query", [user_id |-> user.id, created_at |-> user.created_at,
                           name |-> user.name,
                           discriminator |-> user.discriminator,
                           bot |-> user.bot]) >>

db_add_guild(guild) ==
    << Stmt("guild_query", [guild_id |-> guild.id, name |-> guild.name]) >>

db_add_private_channel(channel) ==
    IF channel.recipient = None THEN << >>
    ELSE LET ids == sorted2(channel.recipient[1].id, SelfUser.id)
         IN << Stmt("private_channel_query",
                    [channel_id |-> channel.id, user1 |-> ids[1], user2 |-> ids[2]]) >>

\* the channel upsert issued before the upsert of its guild
db_add_guild_channel_ChannelFirst(channel) ==
    << Stmt("guild_channel_query",
            [channel_id |-> channel.id, guild_id |-> channel.guild.id,
             name |-> channel.name]) >>
    \o db_add_guild(channel.guild)

db_add_guild_channel(channel) ==
    db_add_guild(channel.guild)
    \o << Stmt("guild_channel_query",
               [channel_id |-> channel.id, guild_id |-> channel.guild.id,
                name |-> channel.name]) >>

message_stmt(q, message) ==
    Stmt(q, [message_id |-> message.id, created_at |-> message.created_at,
             channel_id |-> message.channel.id, author_id |-> message.author.id,
             content |-> message.content, embed |-> get_rich_embed(message)])

attachment_stmts(q, message) ==
    [i \in 1..Len(message.attachments) |->
        LET a == message.attachments[i]
        IN Stmt(q, [attachment_id |-> a.id, message_id |-> message.id,
                    size |-> a.size, filename |-> a.filename, url |-> a.url])]

\* db_add_message without its early returns: the message insert is reached
\* on every channel
db_add_message_FallsThrough(message) ==
    IF message.channel.variant = "private" /\ message.channel.recipient # None THEN
        db_add_user(message.channel.recipient[1])
        \o db_add_private_channel(message.channel)
        \o << message_stmt("private_message_query", message) >>
        \o attachment_stmts("private_attachment_query", message)
    ELSE IF message.channel.variant = "guild" THEN
        db_add_user(message.author)
        \o db_add_guild_channel(message.channel)
        \o << message_stmt("guild_message_query", message) >>
        \o attachment_stmts("guild_attachment_query", message)
    ELSE << message_stmt("private_message_query", message) >>

db_add_message(message) ==
    IF message.channel.variant = "private" THEN
        IF message.channel.recipient = None THEN << >>
        ELSE db_add_user(message.channel.recipient[1])
             \o db_add_private_channel(message.channel)
             \o << message_stmt("private_message_query", message) >>
             \o attachment_stmts("private_attachment_query", message)
    ELSE IF message.channel.variant = "guild" THEN
        db_add_user(message.author)
        \o db_add_guild_channel(message.channel)
        \o << message_stmt("guild_message_query", message) >>
        \o attachment_stmts("guild_attachment_query", message)
    ELSE << >>

\* datetime.utcnow() when the platform reports no edit time
UtcNow == Some("utcnow")

db_add_edit(message) ==
    LET edit_query == IF message.channel.variant = "private"
                      THEN "private_edit_query" ELSE "guild_edit_query"
        edited_at == IF message.edited_at # None THEN message.edited_at ELSE UtcNow
    IN << Stmt(edit_query, [message_id |-> message.id, edited_at |-> edited_at,
                            content |-> message.content,
                            embed |-> get_rich_embed(message)]) >>

db_add_deletion(message) ==
    LET deletion_query == IF message.channel.variant = "private"
                          THEN "private_deletion_query" ELSE "guild_deletion_query"
    IN << Stmt(deletion_query, [message_id |-> message.id]) >>

\* a comparison of the text alone
edit_differs_ContentOnly(before, after) == before.content # after.content

\* the comparison that decides whether on_message_edit logs the edit
edit_differs(before, after) ==
    \/ before.content # after.content
    \/ get_rich_embed(before) # get_rich_embed(after)

(***************************************************************************)
(* The database.  A table with a key is a function from the key to the      *)
(* row; the edit tables have no key and are sequences of rows.             *)
(***************************************************************************)
EmptyDb ==
    [users |-> << >>, guilds |-> << >>,
     private_channels |-> << >>, guild_channels |-> << >>,
     private_messages |-> << >>, guild_messages |-> << >>,
     private_attachments |-> << >>, guild_attachments |-> << >>,
     private_edits |-> << >>, guild_edits |-> << >>,
     private_deletions |-> << >>, guild_deletions |-> << >>]

Has(table, key) == key \in DOMAIN table

\* INSERT ... ON CONFLICT (key) DO NOTHING
InsertIgnore(table, key, row) ==
    IF Has(table, key) THEN table ELSE table @@ (key :> row)

\* the row a key holds after INSERT ... ON CONFLICT (key) DO UPDATE
Put(table, key, row) ==
    [k \in DOMAIN table \cup {key} |-> IF k = key THEN row ELSE table[k]]

\* a user upsert that also refreshes the bot flag
user_query_RefreshesBot(d, a) ==
    [d EXCEPT !.users = Put(d.users, a.user_id,
        [created_at |-> IF Has(d.users, a.user_id)
                        THEN d.users[a.user_id].created_at ELSE a.created_at,
         name |-> a.name, discriminator |-> a.discriminator, bot |-> a.bot])]

\* INSERT INTO users ... ON CONFLICT (user_id) DO UPDATE SET name, discriminator
user_query(d, a) ==
    LET row == IF Has(d.users, a.user_id)
               THEN [d.users[a.user_id] EXCEPT !.name = a.name,
                                               !.discriminator = a.discriminator]
               ELSE [created_at |-> a.created_at, name |-> a.name,
                     discriminator |-> a.discriminator, bot |-> a.bot]
    IN [d EXCEPT !.users = Put(d.users, a.user_id, row)]

\* INSERT INTO guilds ... ON CONFLICT (guild_id) DO UPDATE SET name
guild_query(d, a) ==
    [d EXCEPT !.guilds = Put(d.guilds, a.guild_id, [name |-> a.name])]

\* INSERT INTO private_channels ... ON CONFLICT (channel_id) DO NOTHING
private_channel_query(d, a) ==
    [d EXCEPT !.private_channels =
        InsertIgnore(d.private_channels, a.channel_id,
                     [user1 |-> a.user1, user2 |-> a.user2])]

\* a channel upsert that keeps the row on conflict
guild_channel_query_KeepsName(d, a) ==
    [d EXCEPT !.guild_channels =
        InsertIgnore(d.guild_channels, a.channel_id,
                     [guild_id |-> a.guild_id, name |-> a.name])]

\* INSERT INTO guild_channels ... ON CONFLICT (channel_id) DO UPDATE SET name
guild_channel_query(d, a) ==
    LET row == IF Has(d.guild_channels, a.channel_id)
               THEN [d.guild_channels[a.channel_id] EXCEPT !.name = a.name]
               ELSE [guild_id |-> a.guild_id, name |-> a.name]
    IN [d EXCEPT !.guild_channels = Put(d.guild_channels, a.channel_id, row)]

message_row(a) ==
    [created_at |-> a.created_at, channel_id |-> a.channel_id,
     author_id |-> a.author_id, content |-> a.content, embed |-> a.embed]

\* INSERT INTO private_messages ... ON CONFLICT (message_id) DO NOTHING
private_message_query(d, a) ==
    [d EXCEPT !.private_messages =
        InsertIgnore(d.private_messages, a.message_id, message_row(a))]

\* a message insert that overwrites the row on conflict
guild_message_query_Overwrites(d, a) ==
    [d EXCEPT !.guild_messages = Put(d.guild_messages, a.message_id, message_row(a))]

\* INSERT INTO guild_messages ... ON CONFLICT (message_id) DO NOTHING
guild_message_query(d, a) ==
    [d EXCEPT !.guild_messages =
        InsertIgnore(d.guild_messages, a.message_id, message_row(a))]

attachment_row(a) ==
    [message_id |-> a.message_id, size |-> a.size,
     filename |-> a.filename, url |-> a.url]

\* INSERT INTO private_attachments ... ON CONFLICT (attachment_id) DO NOTHING
private_attachment_query(d, a) ==
    [d EXCEPT !.private_attachments =
        InsertIgnore(d.private_attachments, a.attachment_id, attachment_row(a))]

\* INSERT INTO guild_attachments ... ON CONFLICT (attachment_id) DO NOTHING
guild_attachment_query(d, a) ==
    [d EXCEPT !.guild_attachments =
        InsertIgnore(d.guild_attachments, a.attachment_id, attachment_row(a))]

edit_row(a) ==
    [message_id |-> a.message_id, edited_at |-> a.edited_at,
     content |-> a.content, embed |-> a.embed]

\* INSERT INTO private_edits VALUES (...)
private_edit_query(d, a) ==
    [d EXCEPT !.private_edits = Append(d.private_edits, edit_row(a))]

\* INSERT INTO guild_edits VALUES (...)
guild_edit_query(d, a) ==
    [d EXCEPT !.guild_edits = Append(d.guild_edits, edit_row(a))]

\* INSERT INTO private_deletions VALUES (message_id)
private_deletion_query(d, a) ==
    [d EXCEPT !.private_deletions = Put(d.private_deletions, a.message_id, TRUE)]

\* INSERT INTO guild_deletions VALUES (message_id)
guild_deletion_query(d, a) ==
    [d EXCEPT !.guild_deletions = Put(d.guild_deletions, a.message_id, TRUE)]

\* conn.execute(query, *args) on the rows d the transaction sees
Execute(d, s) ==
    CASE s.q = "user_query" -> user_query(d, s.args)
      [] s.q = "guild_query" -> guild_query(d, s.args)
      [] s.q = "private_channel_query" -> private_channel_query(d, s.args)
      [] s.q = "guild_channel_query" -> guild_channel_query(d, s.args)
      [] s.q = "private_message_query" -> private_message_query(d, s.args)
      [] s.q = "guild_message_query" -> guild_message_query(d, s.args)
      [] s.q = "private_attachment_query" -> private_attachment_query(d, s.args)
      [] s.q = "guild_attachment_query" -> guild_attachment_query(d, s.args)
      [] s.q = "private_edit_query" -> private_edit_query(d, s.args)
      [] s.q = "guild_edit_query" -> guild_edit_query(d, s.args)
      [] s.q = "private_deletion_query" -> private_deletion_query(d, s.args)
      [] s.q = "guild_deletion_query" -> guild_deletion_query(d, s.args)

RECURSIVE Apply(_, _)
Apply(d, stmts) ==
    IF stmts = << >> THEN d ELSE Apply(Execute(d, Head(stmts)), Tail(stmts))

(***************************************************************************)
(* The constraints of the schema the statements are checked against.       *)
(* Messages reference their channel and their author; a deletion is keyed  *)
(* by its message id and references the message; edits reference nothing.  *)
(***************************************************************************)
NoError == "none"

\* a schema in which the edit tables reference the message tables too
SchemaViolation_EditsReference(d, s) ==
    CASE s.q = "private_edit_query" ->
            IF Has(d.private_messages, s.args.message_id) THEN NoError
            ELSE "foreign_key_violation"
      [] s.q = "guild_edit_query" ->
            IF Has(d.guild_messages, s.args.message_id) THEN NoError
            ELSE "foreign_key_violation"
      [] OTHER -> NoError

SchemaViolation(d, s) ==
    CASE s.q = "private_message_query" ->
            IF Has(d.private_messages, s.args.message_id) THEN NoError
            ELSE IF ~Has(d.private_channels, s.args.channel_id)
                    \/ ~Has(d.users, s.args.author_id)
                 THEN "foreign_key_violation" ELSE NoError
      [] s.q = "guild_message_query" ->
            IF Has(d.guild_messages, s.args.message_id) THEN NoError
            ELSE IF ~Has(d.guild_channels, s.args.channel_id)
                    \/ ~Has(d.users, s.args.author_id)
                 THEN "foreign_key_violation" ELSE NoError
      [] s.q = "private_deletion_query" ->
            IF Has(d.private_deletions, s.args.message_id) THEN "unique_violation"
            ELSE IF ~Has(d.private_messages, s.args.message_id)
                 THEN "foreign_key_violation" ELSE NoError
      [] s.q = "guild_deletion_query" ->
            IF Has(d.guild_deletions, s.args.message_id) THEN "unique_violation"
            ELSE IF ~Has(d.guild_messages, s.args.message_id)
                 THEN "foreign_key_violation" ELSE NoError
      [] OTHER -> NoError

\* the key a statement writes in a table with a key; << >> for an edit table
KeyOf(s) ==
    CASE s.q = "user_query" -> <<"users", s.args.user_id>>
      [] s.q = "guild_query" -> <<"guilds", s.args.guild_id>>
      [] s.q = "private_channel_query" -> <<"private_channels", s.args.channel_id>>
      [] s.q = "guild_channel_query" -> <<"guild_channels", s.args.channel_id>>
      [] s.q = "private_message_query" -> <<"private_messages", s.args.message_id>>
      [] s.q = "guild_message_query" -> <<"guild_messages", s.args.message_id>>
      [] s.q = "private_attachment_query" -> <<"private_attachments", s.args.attachment_id>>
      [] s.q = "guild_attachment_query" -> <<"guild_attachments", s.args.attachment_id>>
      [] s.q = "private_deletion_query" -> <<"private_deletions", s.args.message_id>>
      [] s.q = "guild_deletion_query" -> <<"guild_deletions", s.args.message_id>>
      [] OTHER -> << >>

\* errors of the database that no schema constraint explains
EnvErrors == {"connection_failure", "serialization_failure"}

\* asyncpg.IntegrityConstraintViolationError: SQLSTATE class 23
IntegrityConstraintViolationError ==
    {"foreign_key_violation", "unique_violation", "not_null_violation",
     "check_violation"}

(***************************************************************************)
(* The handlers.                                                           *)
(***************************************************************************)
\* the statements a handler issues inside its transaction, in order
HandlerStmts(kind, msg) ==
    CASE kind = "ready" -> db_add_user(SelfUser)
      [] kind = "message" -> db_add_message(msg)
      [] kind = "edit" -> db_add_edit(msg)
      [] kind = "delete" -> db_add_deletion(msg)

\* the statements of on_message issued on the bare connection
InTransaction_OnlyOthers(kind) == kind # "message"

\* `async with conn.transaction()` around the statements of a handler
InTransaction(kind) == TRUE

\* on_message_delete without its try block
Caught_Nothing(kind, e) == FALSE

\* on_message_delete with `except Exception`
Caught_Everything(kind, e) == kind = "delete"

\* the except clause of on_message_delete
Caught(kind, e) == kind = "delete" /\ e \in IntegrityConstraintViolationError

Task(kind, before, msg) ==
    [kind |-> kind, before |-> before, msg |-> msg, pc |-> "acquire",
     stmts |-> HandlerStmts(kind, msg), tx |-> << >>, err |-> NoError,
     raised |-> FALSE]

Finished(kind, before, msg, outcome, err) ==
    [kind |-> kind, before |-> before, msg |-> msg, outcome |-> outcome, err |-> err]

\* tasks between pool.acquire() and the release of the connection
Holding == {t \in DOMAIN tasks : tasks[t].pc \in {"exec", "end", "release"}}

\* tasks whose transaction is open
InTx == {t \in DOMAIN tasks : tasks[t].pc \in {"exec", "end"}}

\* the rows the transaction of task t sees: committed rows and its own writes
View(t) == Apply(db, tasks[t].tx)

\* statement s waits for the row lock of another open transaction
Blocked(t, s) ==
    /\ KeyOf(s) # << >>
    /\ \E o \in InTx \ {t} :
          \E i \in 1..Len(tasks[o].tx) : KeyOf(tasks[o].tx[i]) = KeyOf(s)

\* the process after start_bot, on a database that holds the rows of one of
\* `stored`, logged before the process started
InitOn(stored) ==
    /\ connected = FALSE
    /\ poolSize \in 1..MaxPool
    /\ pool = poolSize
    /\ db \in stored
    /\ tasks = << >>
    /\ dispatched = 0
    /\ last = Finished("none", NoMessage, NoMessage, "none", NoError)
    /\ selfUpserts = 0
    /\ poolState = "open"
    /\ sessionOpen = TRUE

Spawn(kind, before, msg) ==
    /\ dispatched' = dispatched + 1
    /\ LET t == CHOOSE n \in 1..MaxEvents :
                    n \notin DOMAIN tasks /\ \A k \in 1..(n - 1) : k \in DOMAIN tasks
       IN tasks' = tasks @@ (t :> Task(kind, before, msg))

Return(kind, before, msg) ==
    /\ dispatched' = dispatched + 1
    /\ last' = Finished(kind, before, msg, "skipped", NoError)

\* on_ready up to its first await
DispatchReady ==
    /\ sessionOpen
    /\ dispatched < MaxEvents
    /\ IF ~connected
       THEN Spawn("ready", NoMessage, NoMessage) /\ UNCHANGED last
       ELSE Return("ready", NoMessage, NoMessage) /\ UNCHANGED tasks
    /\ UNCHANGED <<poolState, sessionOpen, connected, poolSize, pool, db, selfUpserts>>

\* on_message up to its first await
DispatchMessage(message) ==
    /\ sessionOpen
    /\ dispatched < MaxEvents
    /\ Spawn("message", NoMessage, message)
    /\ UNCHANGED <<poolState, sessionOpen, connected, poolSize, pool, db, last, selfUpserts>>

\* on_message_edit up to its first await
DispatchEdit(before, after) ==
    /\ sessionOpen
    /\ dispatched < MaxEvents
    /\ IF edit_differs(before, after)
       THEN Spawn("edit", before, after) /\ UNCHANGED last
       ELSE Return("edit", before, after) /\ UNCHANGED tasks
    /\ UNCHANGED <<poolState, sessionOpen, connected, poolSize, pool, db, selfUpserts>>

\* on_message_delete up to its first await
DispatchDelete(message) ==
    /\ sessionOpen
    /\ dispatched < MaxEvents
    /\ Spawn("delete", NoMessage, message)
    /\ UNCHANGED <<poolState, sessionOpen, connected, poolSize, pool, db, last, selfUpserts>>

\* pool.acquire() hands out a connection and the transaction begins
Acquire(t) ==
    /\ tasks[t].pc = "acquire"
    /\ poolState = "open"
    /\ pool > 0
    /\ pool' = pool - 1
    /\ tasks' = [tasks EXCEPT ![t].pc =
                    IF tasks[t].stmts = << >> THEN "end" ELSE "exec"]
    /\ UNCHANGED <<poolState, sessionOpen, connected, poolSize, db, dispatched, last, selfUpserts>>

\* pool.acquire() on a pool that close() was called on raises InterfaceError
\* out of the handler, which holds no connection
AcquireFails(t) ==
    /\ tasks[t].pc = "acquire"
    /\ poolState # "open"
    /\ tasks' = [o \in DOMAIN tasks \ {t} |-> tasks[o]]
    /\ last' = Finished(tasks[t].kind, tasks[t].before, tasks[t].msg,
                        "raised", "interface_error")
    /\ UNCHANGED <<poolState, sessionOpen, connected, poolSize, pool, db,
                   dispatched, selfUpserts>>

\* the task after its statement failed with e: the statements after it are
\* not issued, and e leaves the transaction block unless it is caught inside
Raised(task, e) ==
    [task EXCEPT !.pc = "end", !.stmts = << >>, !.err = e,
                 !.raised = ~Caught(task.kind, e)]

\* the task after its statement s succeeded
Executed(task, s) ==
    [task EXCEPT !.stmts = Tail(task.stmts),
                 !.tx = IF InTransaction(task.kind) THEN Append(task.tx, s)
                        ELSE task.tx,
                 !.pc = IF Tail(task.stmts) = << >> THEN "end" ELSE "exec"]

\* one `await conn.execute(...)`
Exec(t) ==
    LET task == tasks[t]
        s == Head(task.stmts)
        e == SchemaViolation(View(t), s)
    IN /\ task.pc = "exec"
       /\ ~Blocked(t, s)
       /\ IF e = NoError
          THEN /\ tasks' = [tasks EXCEPT ![t] = Executed(task, s)]
               /\ db' = IF InTransaction(task.kind) THEN db ELSE Execute(db, s)
               /\ selfUpserts' = IF task.kind = "ready"
                                 THEN selfUpserts + 1 ELSE selfUpserts
          ELSE /\ tasks' = [tasks EXCEPT ![t] = Raised(task, e)]
               /\ UNCHANGED <<db, selfUpserts>>
       /\ UNCHANGED <<poolState, sessionOpen, connected, poolSize, pool, dispatched, last>>

\* one `await conn.execute(...)` that the database answers with error e
ExecFault(t, e) ==
    /\ tasks[t].pc = "exec"
    /\ tasks' = [tasks EXCEPT ![t] = Raised(tasks[t], e)]
    /\ UNCHANGED <<poolState, sessionOpen, connected, poolSize, pool, db, dispatched, last, selfUpserts>>

\* the exit of `async with conn.transaction()`: ROLLBACK when an exception
\* leaves the block, COMMIT otherwise; the COMMIT of a transaction in which a
\* statement failed rolls it back
End(t) ==
    LET task == tasks[t]
    IN /\ task.pc = "end"
       /\ db' = IF task.err = NoError THEN Apply(db, task.tx) ELSE db
       /\ tasks' = [tasks EXCEPT ![t].pc = "release"]
       /\ UNCHANGED <<poolState, sessionOpen, connected, poolSize, pool, dispatched, last, selfUpserts>>

Outcome(task) ==
    IF task.raised THEN "raised"
    ELSE IF task.err # NoError THEN "swallowed"
    ELSE "committed"

\* a connection that is returned only by a handler whose statements succeeded
Releases_OnCommitOnly(task) == task.err = NoError

\* a release that is skipped when an exception leaves the handler
Releases_UnlessRaised(task) == ~task.raised

\* whether the exit of `async with pool.acquire()` returns the connection
Releases(task) == TRUE

\* connected set by every on_ready, one left by an exception included
MarksConnected_EvenIfRaised(task) == task.kind = "ready"

\* `self.connected = True` is reached when no exception left the with blocks
MarksConnected(task) == task.kind = "ready" /\ ~task.raised

\* the exit of `async with pool.acquire()` and what follows it in the handler
Release(t) ==
    LET task == tasks[t]
    IN /\ task.pc = "release"
       /\ pool' = IF Releases(task) THEN pool + 1 ELSE pool
       /\ connected' = IF MarksConnected(task) THEN TRUE ELSE connected
       /\ tasks' = [o \in DOMAIN tasks \ {t} |-> tasks[o]]
       /\ last' = Finished(task.kind, task.before, task.msg, Outcome(task), task.err)
       /\ UNCHANGED <<poolState, sessionOpen, poolSize, db, dispatched, selfUpserts>>

\* close() is called: pool.close() stops handing out connections and waits
\* for the ones in use
Close ==
    /\ poolState = "open"
    /\ poolState' = "closing"
    /\ UNCHANGED <<sessionOpen, connected, poolSize, pool, db, tasks, dispatched,
                   last, selfUpserts>>

\* pool.close() returns once every connection is back, and close() with it
PoolClosed ==
    /\ poolState = "closing"
    /\ pool = poolSize
    /\ poolState' = "closed"
    /\ UNCHANGED <<sessionOpen, connected, poolSize, pool, db, tasks, dispatched,
                   last, selfUpserts>>

\* the event loop resumes a handler
Run ==
    \/ \E t \in DOMAIN tasks : Acquire(t)
    \/ \E t \in DOMAIN tasks : Exec(t)
    \/ \E t \in DOMAIN tasks : End(t)
    \/ \E t \in DOMAIN tasks : Release(t)

\* the database fails a statement
Fault == \E t \in DOMAIN tasks : \E e \in EnvErrors : ExecFault(t, e)

(***************************************************************************)
(* The events the gateway delivers.                                        *)
(***************************************************************************)
\* user 1 as first seen, and as seen later with every attribute changed
Alice == User(1, "t1", "alice", "d1", FALSE)
Alicia == User(1, "t2", "alicia", "d2", TRUE)
Carol == User(3, "t1", "carol", "d3", FALSE)

Town == Guild(30, "town")
City == Guild(30, "city")

General == GuildChannel(20, Town, "general")
Chat == GuildChannel(20, City, "chat")
\* direct messages with a user whose id is below, and above, the bot's
DmAlice == DMChannel(10, Some(Alice))
DmCarol == DMChannel(11, Some(Carol))
DmGone == DMChannel(12, None)
Group == OtherChannel(40)

Rich(data) == Embed("rich", data)
Image == Embed("image", "i")
File == Attachment(7, 100, "a.png", "http://a")

GuildMsg == Message(1, "t5", General, Alice, "hi", << >>, <<File>>, None)
\* message 1 delivered again, with other content and a renamed author
GuildMsgAgain == Message(1, "t5", Chat, Alicia, "hi again", <<Rich("r1")>>, << >>, None)
GuildMsgEdited == Message(1, "t5", General, Alice, "hi!", << >>, <<File>>, Some("t8"))
GuildMsgImage == Message(1, "t5", General, Alice, "hi", <<Image>>, <<File>>, None)
PrivMsg == Message(2, "t6", DmAlice, Alice, "yo", <<Image, Rich("r1"), Rich("r2")>>, << >>, None)
PrivMsgEdited == Message(2, "t6", DmAlice, Alice, "yo", <<Rich("r3")>>, << >>, None)
PrivMsgSame == Message(2, "t6", DmAlice, Alice, "yo", <<Rich("r1"), Rich("r4")>>, << >>, Some("t9"))
\* a direct message the bot itself wrote
OwnMsg == Message(3, "t7", DmCarol, SelfUser, "hello", << >>, << >>, None)
GoneMsg == Message(4, "t7", DmGone, SelfUser, "bye", << >>, << >>, None)
GroupMsg == Message(5, "t7", Group, Carol, "all", << >>, << >>, None)

Edits == {<<GuildMsg, GuildMsgEdited>>, <<GuildMsg, GuildMsgImage>>,
          <<PrivMsg, PrivMsgEdited>>, <<PrivMsg, PrivMsgSame>>}

\* a database on which nothing was logged yet
Fresh == {EmptyDb}

Init == InitOn(Fresh)

Next ==
    \/ DispatchReady
    \/ \E m \in {GuildMsg, OwnMsg, GoneMsg} : DispatchMessage(m)
    \/ DispatchEdit(GuildMsg, GuildMsgEdited)
    \/ DispatchDelete(GuildMsg)
    \/ Run
    \/ Fault

Spec == Init /\ [][Next]_vars

\* a database that holds the bot's own row and the direct message of Alice
LoggedPriv == Apply(EmptyDb, db_add_user(SelfUser) \o db_add_message(PrivMsg))

\* messages and their deletions, on a database that may fail
InitDeletion == InitOn({EmptyDb, LoggedPriv})

NextDeletion ==
    \/ \E m \in {GuildMsg, PrivMsg} : DispatchMessage(m)
    \/ \E m \in {GuildMsg, PrivMsg} : DispatchDelete(m)
    \/ Run
    \/ Fault

SpecDeletion == InitDeletion /\ [][NextDeletion]_vars

\* repeated sightings of users, channels and messages
InitSightings == InitOn({EmptyDb, LoggedPriv})

NextSightings ==
    \/ \E m \in {GuildMsg, GuildMsgAgain, PrivMsg, OwnMsg} : DispatchMessage(m)
    \/ DispatchEdit(GuildMsg, GuildMsgEdited)
    \/ DispatchDelete(GuildMsg)
    \/ Run

SpecSightings == InitSightings /\ [][NextSightings]_vars

\* edit events, with and without a logged message
InitEdits == InitOn({EmptyDb, LoggedPriv})

NextEdits ==
    \/ \E p \in Edits : DispatchEdit(p[1], p[2])
    \/ DispatchMessage(PrivMsg)
    \/ Run

SpecEdits == InitEdits /\ [][NextEdits]_vars

\* events on channels of every variant, the ones on_message ignores included
Ignored(message) ==
    \/ message.channel.variant = "private" /\ message.channel.recipient = None
    \/ message.channel.variant \notin {"private", "guild"}

InitVariants == InitOn(Fresh)

NextVariants ==
    \/ \E m \in {PrivMsg, GuildMsg, GoneMsg, GroupMsg} : DispatchMessage(m)
    \/ \E m \in {PrivMsg, GuildMsg, GroupMsg} :
          DispatchEdit(m, [m EXCEPT !.content = "edited", !.edited_at = Some("t8")])
    \/ \E m \in {PrivMsg, GuildMsg, GroupMsg} : DispatchDelete(m)
    \/ Run

SpecVariants == InitVariants /\ [][NextVariants]_vars

\* ready events, with statements that fail, next to a direct message
InitReady == InitOn(Fresh)

NextReady ==
    \/ DispatchReady
    \/ DispatchMessage(OwnMsg)
    \/ Run
    \/ Fault

SpecReady == InitReady /\ [][NextReady]_vars

\* events around a call of close()
InitClose == InitOn(Fresh)

NextClose ==
    \/ \E m \in {GuildMsg, PrivMsg} : DispatchMessage(m)
    \/ DispatchDelete(GuildMsg)
    \/ Run
    \/ Close
    \/ PoolClosed
    \/ \E t \in DOMAIN tasks : AcquireFails(t)

SpecClose == InitClose /\ [][NextClose]_vars

\* the handlers under the scheduling of the event loop: a handler that can
\* take its next step (its connection is there, the row it writes is not
\* locked by another transaction) is resumed eventually
Step(t) ==
    /\ t \in DOMAIN tasks
    /\ Acquire(t) \/ Exec(t) \/ End(t) \/ Release(t)

Fairness == \A t \in 1..MaxEvents : WF_vars(Step(t))

InitLive == InitOn(Fresh)

NextLive ==
    \/ DispatchReady
    \/ \E m \in {GuildMsg, OwnMsg} : DispatchMessage(m)
    \/ DispatchDelete(GuildMsg)
    \/ Run

SpecLive == InitLive /\ [][NextLive]_vars /\ Fairness

\* the direct message of Alice with each of these embed lists
EmbedLists == {<< >>, <<Image>>, <<Image, Rich("r1"), Rich("r2")>>,
               <<Rich("r2"), Rich("r1")>>}

WithEmbeds(message, embeds) == [message EXCEPT !.embeds = embeds]

\* messages and edits over the embed lists
InitEmbeds == InitOn(Fresh)

NextEmbeds ==
    \/ \E l \in EmbedLists : DispatchMessage(WithEmbeds(PrivMsg, l))
    \/ \E b, a \in EmbedLists :
          DispatchEdit(WithEmbeds(PrivMsg, b), WithEmbeds(PrivMsg, a))
    \/ Run

SpecEmbeds == InitEmbeds /\ [][NextEmbeds]_vars

(***************************************************************************)
(* Steps of a handler, as the properties below name them.                  *)
(***************************************************************************)
\* task t leaves its transaction block in this step
Ends(t) ==
    /\ t \in DOMAIN tasks /\ tasks[t].pc = "end"
    /\ t \in DOMAIN tasks' /\ tasks'[t].pc = "release"

\* task t leaves its transaction block with a COMMIT of its statements
Commits(t) == Ends(t) /\ tasks[t].err = NoError

\* task t gets the answer to a statement in this step
Answered(t) ==
    /\ t \in DOMAIN tasks /\ tasks[t].pc = "exec"
    /\ t \in DOMAIN tasks' /\ tasks'[t] # tasks[t]

IsMessageInsert(s) == s.q \in {"private_message_query", "guild_message_query"}

IsChannelInsert(s) == s.q \in {"private_channel_query", "guild_channel_query"}

(***************************************************************************)
(* C1.  When a handler is about to execute the insert of a message row,    *)
(* its own transaction has already upserted the users row of the message's *)
(* author and inserted or upserted the row of the message's channel.       *)
(***************************************************************************)
C1_ParentsWrittenBeforeMessage ==
    \A t \in DOMAIN tasks :
        (tasks[t].pc = "exec" /\ IsMessageInsert(Head(tasks[t].stmts))) =>
            LET tx == tasks[t].tx
                m == tasks[t].msg
            IN /\ \E i \in 1..Len(tx) :
                      tx[i].q = "user_query" /\ tx[i].args.user_id = m.author.id
               /\ \E i \in 1..Len(tx) :
                      IsChannelInsert(tx[i]) /\ tx[i].args.channel_id = m.channel.id

(***************************************************************************)
(* C2.  Over any interleaving of ready events, the upsert of the bot's own *)
(* user record by on_ready is executed at most once.                       *)
(***************************************************************************)
C2_SelfRegisteredAtMostOnce == selfUpserts <= 1

(***************************************************************************)
(* C8.  The writes of one handler invocation are atomic: the committed     *)
(* rows change only when a handler that issued all of its statements       *)
(* without an error leaves its transaction, and they change by all of its  *)
(* statements at once; a handler that fails leaves no row behind.          *)
(***************************************************************************)
C8_HandlerWritesAtomic ==
    [][db' # db =>
          \E t \in DOMAIN tasks :
              /\ Commits(t)
              /\ tasks[t].tx = HandlerStmts(tasks[t].kind, tasks[t].msg)
              /\ db' = Apply(db, HandlerStmts(tasks[t].kind, tasks[t].msg))]_vars

\* a message handler failed after its user, guild and channel upserts
\* succeeded, and has rolled back: none of the rows is there
C8_Witness ==
    \E t \in DOMAIN tasks :
        /\ tasks[t].kind = "message" /\ tasks[t].pc = "release"
        /\ tasks[t].raised /\ Len(tasks[t].tx) >= 3
        /\ db = EmptyDb

(***************************************************************************)
(* C9.  The connections checked out of the pool are exactly those of the   *)
(* handlers inside their acquire scope, one each, and none is checked out  *)
(* when no handler is in flight: every exit path returns the connection.   *)
(***************************************************************************)
C9_PoolAccounting ==
    /\ pool \in 0..poolSize
    /\ poolSize - pool = Cardinality(Holding)
    /\ (tasks = << >> => pool = poolSize)

\* every dispatched handler is gone, the last one having failed with a
\* database error, and the pool is full again
C9_Witness ==
    /\ tasks = << >>
    /\ pool = poolSize
    /\ dispatched = MaxEvents
    /\ last.outcome = "raised"

\* the message table and the deletion table of a message's channel variant
MessagesOf(d, m) ==
    CASE m.channel.variant = "private" -> d.private_messages
      [] m.channel.variant = "guild" -> d.guild_messages
      [] OTHER -> << >>

DeletionsOf(d, m) ==
    CASE m.channel.variant = "private" -> d.private_deletions
      [] m.channel.variant = "guild" -> d.guild_deletions
      [] OTHER -> << >>

AllDeletions(d) == <<d.private_deletions, d.guild_deletions>>

(***************************************************************************)
(* C3.  A deletion event for a message id without a message row does not   *)
(* raise out of on_message_delete and leaves no deletion row; a deletion   *)
(* event for a message id whose row exists (and that is not marked deleted *)
(* yet) adds exactly one row, to the deletion table of the message's       *)
(* channel variant.  Nothing else writes a deletion row.                   *)
(***************************************************************************)
C3_Answer(t) ==
    LET m == tasks[t].msg
        after == tasks'[t]
    IN IF ~Has(MessagesOf(db, m), m.id)
       THEN ~after.raised /\ after.tx = << >> /\ after.err = "foreign_key_violation"
       ELSE ~Has(DeletionsOf(db, m), m.id) =>
               ~after.raised /\ after.err = NoError /\ Len(after.tx) = 1

C3_End(t) ==
    LET m == tasks[t].msg
    IN IF tasks[t].tx = << >> \/ tasks[t].raised
       THEN db' = db
       ELSE /\ ~Has(DeletionsOf(db, m), m.id)
            /\ DOMAIN DeletionsOf(db', m) = DOMAIN DeletionsOf(db, m) \cup {m.id}
            /\ Cardinality(DOMAIN db'.private_deletions)
                 + Cardinality(DOMAIN db'.guild_deletions)
               = Cardinality(DOMAIN db.private_deletions)
                 + Cardinality(DOMAIN db.guild_deletions) + 1

C3_DeletionRows ==
    [][/\ \A t \in DOMAIN tasks :
              tasks[t].kind = "delete" =>
                  /\ (Answered(t) /\ tasks'[t].err \notin EnvErrors) => C3_Answer(t)
                  /\ Ends(t) => C3_End(t)
       /\ AllDeletions(db') # AllDeletions(db) =>
              \E t \in DOMAIN tasks : tasks[t].kind = "delete" /\ Ends(t)]_vars

\* a deletion of a message without a row was swallowed, and a deletion of a
\* logged message left its row
C3_Witness ==
    /\ last.kind = "delete" /\ last.outcome = "swallowed"
    /\ last.err = "foreign_key_violation"
    /\ ~Has(MessagesOf(db, last.msg), last.msg.id)
    /\ ~Has(DeletionsOf(db, last.msg), last.msg.id)
    /\ \E m \in {GuildMsg, PrivMsg} :
          Has(MessagesOf(db, m), m.id) /\ Has(DeletionsOf(db, m), m.id)

UserArgs(tx) == {tx[i].args : i \in {j \in 1..Len(tx) : tx[j].q = "user_query"}}

\* only a commit changes the users table, and only in the row it upserts
C5_OnlyUpsertsChangeUsers ==
    /\ db'.users # db.users =>
          \E t \in DOMAIN tasks : Commits(t) /\ UserArgs(tasks[t].tx) # {}
    /\ \A t \in DOMAIN tasks : \A a \in UserArgs(tasks[t].tx) :
          Commits(t) =>
              /\ DOMAIN db'.users = DOMAIN db.users \cup {a.user_id}
              /\ \A u \in DOMAIN db.users \ {a.user_id} : db'.users[u] = db.users[u]

(***************************************************************************)
(* C5 as claimed.  After the upsert of a user that already has a row, the  *)
(* row carries the name, the discriminator and the bot flag just observed; *)
(* its creation timestamp is the one of the first insert.                  *)
(***************************************************************************)
C5_LatestNameDiscriminatorBot ==
    [][/\ C5_OnlyUpsertsChangeUsers
       /\ \A t \in DOMAIN tasks : \A a \in UserArgs(tasks[t].tx) :
             Commits(t) =>
                 LET row == db'.users[a.user_id]
                 IN /\ row.name = a.name
                    /\ row.discriminator = a.discriminator
                    /\ row.bot = a.bot
                    /\ row.created_at = IF Has(db.users, a.user_id)
                                        THEN db.users[a.user_id].created_at
                                        ELSE a.created_at]_vars

(***************************************************************************)
(* C5 as amended.  After the upsert of a user that already has a row, the  *)
(* row carries the name and the discriminator just observed; its creation  *)
(* timestamp and its bot flag are those of the first insert.  There is one *)
(* row per user id.                                                        *)
(***************************************************************************)
C5_LatestNameDiscriminator ==
    [][/\ C5_OnlyUpsertsChangeUsers
       /\ \A t \in DOMAIN tasks : \A a \in UserArgs(tasks[t].tx) :
             Commits(t) =>
                 LET row == db'.users[a.user_id]
                     old == Has(db.users, a.user_id)
                 IN /\ row.name = a.name
                    /\ row.discriminator = a.discriminator
                    /\ row.bot = IF old THEN db.users[a.user_id].bot ELSE a.bot
                    /\ row.created_at = IF old THEN db.users[a.user_id].created_at
                                        ELSE a.created_at]_vars

\* user 1, first logged as Alice, was seen again as Alicia
C5_Witness ==
    /\ last.kind = "message" /\ last.msg = GuildMsgAgain /\ last.outcome = "committed"
    /\ Has(db.users, Alice.id)
    /\ db.users[Alice.id] = [created_at |-> Alice.created_at, name |-> Alicia.name,
                             discriminator |-> Alicia.discriminator,
                             bot |-> Alice.bot]

(***************************************************************************)
(* C6.  A message row, once committed, is never changed or removed: a      *)
(* message delivered again for a logged id, an edit and a deletion all     *)
(* leave its creation timestamp, channel, author, content and embed as the *)
(* first insert wrote them.  There is one row per message id.              *)
(***************************************************************************)
C6_MessageRowsImmutable ==
    [][/\ \A m \in DOMAIN db.private_messages :
              /\ m \in DOMAIN db'.private_messages
              /\ db'.private_messages[m] = db.private_messages[m]
       /\ \A m \in DOMAIN db.guild_messages :
              /\ m \in DOMAIN db'.guild_messages
              /\ db'.guild_messages[m] = db.guild_messages[m]]_vars

\* message 1 was delivered again with other content, channel name, author
\* name and embed, and its handler committed: the row is the first one
C6_Witness ==
    /\ last.kind = "message" /\ last.msg = GuildMsgAgain /\ last.outcome = "committed"
    /\ Has(db.guild_messages, GuildMsg.id)
    /\ db.guild_messages[GuildMsg.id] =
          [created_at |-> GuildMsg.created_at, channel_id |-> General.id,
           author_id |-> Alice.id, content |-> GuildMsg.content, embed |-> None]

Min(a, b) == IF a < b THEN a ELSE b

Max(a, b) == IF a < b THEN b ELSE a

(***************************************************************************)
(* C10.  The row of a private channel holds the pair (min(a,b), max(a,b))  *)
(* of the recipient's id a and the bot's id b, whichever is larger; once   *)
(* inserted, the row is never changed.                                     *)
(***************************************************************************)
C10_CanonicalPair ==
    /\ [](\A ch \in {DmAlice, DmCarol} :
            Has(db.private_channels, ch.id) =>
                db.private_channels[ch.id] =
                    [user1 |-> Min(ch.recipient[1].id, SelfUser.id),
                     user2 |-> Max(ch.recipient[1].id, SelfUser.id)])
    /\ [][\A c \in DOMAIN db.private_channels :
              /\ c \in DOMAIN db'.private_channels
              /\ db'.private_channels[c] = db.private_channels[c]]_vars

\* the channel of Alice (id below the bot's) was seen a second time, and
\* the channel of Carol (id above the bot's) is stored too
C10_Witness ==
    /\ last.kind = "message" /\ last.msg = PrivMsg /\ last.outcome = "committed"
    /\ Has(db.private_channels, DmAlice.id)
    /\ Has(db.private_channels, DmCarol.id)
    /\ db.private_channels[DmCarol.id].user1 = SelfUser.id
    /\ db.private_channels[DmAlice.id].user2 = SelfUser.id
    /\ dispatched = MaxEvents /\ tasks = << >>

\* the first embed of type "rich" of a message, serialized, if it has one
RichPositions(m) == {i \in 1..Len(m.embeds) : m.embeds[i].type = "rich"}

ExtractedRich(m) ==
    IF RichPositions(m) = {} THEN None
    ELSE LET i == CHOOSE k \in RichPositions(m) : \A j \in RichPositions(m) : k <= j
         IN <<"json", "rich", m.embeds[i].data>>

EditsOf(d, m) ==
    IF m.channel.variant = "private" THEN d.private_edits ELSE d.guild_edits

AllEdits(d) == <<d.private_edits, d.guild_edits>>

\* edit rows are only appended, one by each edit handler that commits: the
\* row holds the content and the rich embed of the after snapshot
C7_AppendOnly ==
    [][/\ AllEdits(db') # AllEdits(db) =>
              \E t \in DOMAIN tasks : tasks[t].kind = "edit" /\ Commits(t)
       /\ \A t \in DOMAIN tasks :
              (tasks[t].kind = "edit" /\ Commits(t)) =>
                  LET after == tasks[t].msg
                      old == EditsOf(db, after)
                      new == EditsOf(db', after)
                  IN /\ Len(new) = Len(old) + 1
                     /\ SubSeq(new, 1, Len(old)) = old
                     /\ new[Len(new)].message_id = after.id
                     /\ new[Len(new)].content = after.content
                     /\ new[Len(new)].embed = ExtractedRich(after)
                     /\ Len(db'.private_edits) + Len(db'.guild_edits)
                          = Len(db.private_edits) + Len(db.guild_edits) + 1]_vars

(***************************************************************************)
(* C7 as claimed.  An edit event is not logged when before and after have  *)
(* equal content and both have no rich embed; an edit event with any       *)
(* difference of the text or of the embeds is logged, by one new row.      *)
(***************************************************************************)
C7_AnyDifferenceLogged ==
    (last.kind = "edit" /\ last.outcome = "skipped") =>
        \/ /\ last.before.content = last.msg.content
           /\ last.before.embeds = last.msg.embeds
        \/ /\ last.before.content = last.msg.content
           /\ RichPositions(last.before) = {} /\ RichPositions(last.msg) = {}

(***************************************************************************)
(* C7 as amended.  An edit event is logged, by exactly one new row with    *)
(* the after snapshot's content and rich embed, when the content or the    *)
(* first rich embed differs between before and after, and is not logged    *)
(* otherwise (so not when the content is equal and neither has a rich      *)
(* embed).  Edit rows are append-only.                                     *)
(***************************************************************************)
C7_RichDifferenceLogged ==
    /\ []((last.kind = "edit" /\ last.outcome = "skipped") =>
             /\ last.before.content = last.msg.content
             /\ ExtractedRich(last.before) = ExtractedRich(last.msg))
    /\ [](\A t \in DOMAIN tasks :
             tasks[t].kind = "edit" =>
                 \/ tasks[t].before.content # tasks[t].msg.content
                 \/ ExtractedRich(tasks[t].before) # ExtractedRich(tasks[t].msg))
    /\ C7_AppendOnly

\* two edit events: the edit that replaced the rich embed is logged with
\* the new embed, the other one left no row
C7_Witness ==
    /\ dispatched = MaxEvents /\ tasks = << >>
    /\ last.kind = "edit" /\ last.msg = PrivMsgEdited /\ last.outcome = "committed"
    /\ db.guild_edits = << >>
    /\ db.private_edits = << [message_id |-> PrivMsg.id, edited_at |-> UtcNow,
                              content |-> PrivMsg.content,
                              embed |-> <<"json", "rich", "r3">>] >>


\* the embed argument of the message and edit statements of a task
EmbedArgs(task) ==
    LET all == task.tx \o task.stmts
    IN {all[i].args.embed :
           i \in {j \in 1..Len(all) :
                     all[j].q \in {"private_message_query", "guild_message_query",
                                   "private_edit_query", "guild_edit_query"}}}

(***************************************************************************)
(* C11.  get_rich_embed returns the serialization of the first embed of    *)
(* type "rich" in list order (of [image, rich r1, rich r2]: r1), and no    *)
(* embed when the list is empty or holds no rich embed.  The embed stored  *)
(* with a message, the embed stored with an edit and the comparison that   *)
(* decides whether an edit is logged all use it.                           *)
(***************************************************************************)
C11_FirstRichEmbed ==
    /\ \A t \in DOMAIN tasks :
          /\ \A e \in EmbedArgs(tasks[t]) : e = ExtractedRich(tasks[t].msg)
          /\ tasks[t].kind = "edit" =>
                ExtractedRich(tasks[t].before) # ExtractedRich(tasks[t].msg)
    /\ (last.kind = "edit" /\ last.outcome = "skipped") =>
          ExtractedRich(last.before) = ExtractedRich(last.msg)
    /\ \A m \in DOMAIN db.private_messages :
          db.private_messages[m].embed \in
              {None, <<"json", "rich", "r1">>, <<"json", "rich", "r2">>}
    /\ \A i \in 1..Len(db.private_edits) :
          db.private_edits[i].embed \in
              {None, <<"json", "rich", "r1">>, <<"json", "rich", "r2">>}

\* the message with embeds [image, rich r1, rich r2] is stored with r1, and
\* its edit to [rich r2, rich r1] is logged with r2
C11_Witness ==
    /\ Has(db.private_messages, PrivMsg.id)
    /\ db.private_messages[PrivMsg.id].embed = <<"json", "rich", "r1">>
    /\ last.kind = "edit" /\ last.outcome = "committed"
    /\ last.before.embeds = <<Image, Rich("r1"), Rich("r2")>>
    /\ last.msg.embeds = <<Rich("r2"), Rich("r1")>>
    /\ Len(db.private_edits) = 1
    /\ db.private_edits[1].embed = <<"json", "rich", "r2">>


(***************************************************************************)
(* C12.  A message event on a private channel whose recipient is None, or  *)
(* on a channel that is neither private nor guild, executes no statement,  *)
(* writes no row and surfaces no error; db_add_private_channel on a        *)
(* channel without recipient issues no statement.                          *)
(***************************************************************************)
C12_IgnoredTask(task) ==
    /\ task.stmts = << >> /\ task.tx = << >>
    /\ task.err = NoError /\ ~task.raised
    /\ task.msg.channel.variant = "private" =>
          db_add_private_channel(task.msg.channel) = << >>

C12_IgnoredMessageNoOp ==
    /\ [](\A t \in DOMAIN tasks :
             (tasks[t].kind = "message" /\ Ignored(tasks[t].msg)) =>
                 C12_IgnoredTask(tasks[t]))
    /\ []((last.kind = "message" /\ Ignored(last.msg)) =>
             (last.outcome = "committed" /\ last.err = NoError))
    /\ [][\A t \in DOMAIN tasks :
             (tasks[t].kind = "message" /\ Ignored(tasks[t].msg)
                 /\ (t \notin DOMAIN tasks' \/ tasks'[t] # tasks[t])) => db' = db]_vars

\* the handlers of a message on a channel without recipient and of a message
\* on a group channel both went through their transaction, the database is
\* as it was
C12_Witness ==
    /\ last.kind = "message" /\ last.msg = GroupMsg /\ last.outcome = "committed"
    /\ \E t \in DOMAIN tasks :
          tasks[t].kind = "message" /\ tasks[t].msg = GoneMsg
              /\ tasks[t].pc = "release"
    /\ db = EmptyDb


(***************************************************************************)
(* C13.  An edit event with a content or embed difference for a message id *)
(* that has no message row gets its insert answered without error and      *)
(* commits: exactly one edit row is appended, and the row stays whatever   *)
(* is delivered later.  Every edit handler that reaches the database ends  *)
(* committed.                                                              *)
(***************************************************************************)
C13_Orphan(t) ==
    /\ tasks[t].kind = "edit"
    /\ ~Has(MessagesOf(View(t), tasks[t].msg), tasks[t].msg.id)

Issued(task) == task.tx \o task.stmts

IsAttachmentInsert(s) == s.q \in {"private_attachment_query", "guild_attachment_query"}

\* statement p writes the row that statement c references
ParentOf(p, c) ==
    \/ /\ p.q = "guild_query" /\ c.q = "guild_channel_query"
       /\ p.args.guild_id = c.args.guild_id
    \/ /\ p.q = "user_query" /\ c.q = "private_channel_query"
       /\ p.args.user_id \in {c.args.user1, c.args.user2}
    \/ /\ p.q = "user_query" /\ IsMessageInsert(c)
       /\ p.args.user_id = c.args.author_id
    \/ /\ IsChannelInsert(p) /\ IsMessageInsert(c)
       /\ (p.q = "private_channel_query") = (c.q = "private_message_query")
       /\ p.args.channel_id = c.args.channel_id
    \/ /\ IsMessageInsert(p) /\ IsAttachmentInsert(c)
       /\ (p.q = "private_message_query") = (c.q = "private_attachment_query")
       /\ p.args.message_id = c.args.message_id

(***************************************************************************)
(* C14.  In the transaction of one message handler the statements are      *)
(* issued parents before children: a guild-channel upsert comes directly   *)
(* after the upsert of its guild, a user write and the channel write come  *)
(* before the message insert, an attachment insert comes after the insert  *)
(* of its message, and no statement comes before a statement of the same   *)
(* transaction that writes a row it references.                            *)
(***************************************************************************)
C14_ParentsBeforeChildren ==
    \A t \in DOMAIN tasks :
        tasks[t].kind = "message" =>
            LET all == Issued(tasks[t])
            IN \A i \in 1..Len(all) :
                  /\ all[i].q = "guild_channel_query" =>
                        i > 1 /\ ParentOf(all[i - 1], all[i])
                  /\ IsMessageInsert(all[i]) =>
                        /\ \E j \in 1..(i - 1) : all[j].q = "user_query"
                        /\ \E j \in 1..(i - 1) :
                              IsChannelInsert(all[j]) /\ ParentOf(all[j], all[i])
                  /\ IsAttachmentInsert(all[i]) =>
                        \E j \in 1..(i - 1) : ParentOf(all[j], all[i])
                  /\ \A j \in 1..Len(all) : ParentOf(all[j], all[i]) => j < i

\* a guild message with an attachment executed user, guild, channel, message
\* and attachment, in this order
C14_Witness ==
    \E t \in DOMAIN tasks :
        /\ tasks[t].kind = "message" /\ tasks[t].msg = GuildMsg
        /\ tasks[t].pc = "end" /\ tasks[t].err = NoError
        /\ [i \in 1..Len(tasks[t].tx) |-> tasks[t].tx[i].q]
             = <<"user_query", "guild_query", "guild_channel_query",
                 "guild_message_query", "guild_attachment_query">>


\* task t leaves `async with pool.acquire()` in this step
Returns(t) ==
    /\ t \in DOMAIN tasks /\ tasks[t].pc = "release"
    /\ t \notin DOMAIN tasks' \/ tasks'[t] # tasks[t]

(***************************************************************************)
(* C15.  connected is true only when the row of the bot's own id is in     *)
(* users (one row: the table is keyed by the id), it becomes true only in  *)
(* the step that follows the commit of an on_ready transaction, it never   *)
(* goes back to false, an on_ready whose upsert failed leaves it as it     *)
(* was, and a ready event is skipped only when connected is true.          *)
(***************************************************************************)
C15_ConnectedAfterRegistration ==
    /\ [](connected => Has(db.users, SelfUser.id))
    /\ []((last.kind = "ready" /\ last.outcome = "skipped") => connected)
    /\ [][/\ connected => connected'
          /\ (connected' /\ ~connected) =>
                \E t \in DOMAIN tasks :
                    /\ tasks[t].kind = "ready" /\ Returns(t)
                    /\ tasks[t].err = NoError /\ tasks[t].stmts = << >>
                    /\ tasks[t].tx = db_add_user(SelfUser)
          /\ \A t \in DOMAIN tasks :
                (tasks[t].kind = "ready" /\ Returns(t) /\ tasks[t].err # NoError)
                    => connected' = connected
          /\ (~connected /\ dispatched' # dispatched
                /\ \A t \in DOMAIN tasks' \ DOMAIN tasks : tasks'[t].kind = "ready"
                /\ last' = last) =>
                \E t \in DOMAIN tasks' \ DOMAIN tasks :
                    tasks'[t].stmts = db_add_user(SelfUser)]_vars

\* an on_ready failed and left connected false, a second on_ready has
\* committed the bot's row
C15_Witness ==
    /\ last.kind = "ready" /\ last.outcome = "raised" /\ ~connected
    /\ Has(db.users, SelfUser.id)
    /\ \E t \in DOMAIN tasks :
          /\ tasks[t].kind = "ready" /\ tasks[t].pc = "release"
          /\ tasks[t].err = NoError


\* the rows of guild, channel and author after the commit of the handler of
\* guild message m
C16_ParentRows(m) ==
    /\ Has(db'.guilds, m.channel.guild.id)
    /\ db'.guilds[m.channel.guild.id].name = m.channel.guild.name
    /\ Has(db'.guild_channels, m.channel.id)
    /\ db'.guild_channels[m.channel.id]
         = [guild_id |-> m.channel.guild.id, name |-> m.channel.name]
    /\ Has(db'.users, m.author.id)
    /\ db'.users[m.author.id].name = m.author.name

\* the guild_messages row of m holds what this event carried
C16_RowOfThisEvent(m) ==
    /\ Has(db'.guild_messages, m.id)
    /\ db'.guild_messages[m.id].channel_id = m.channel.id
    /\ db'.guild_messages[m.id].author_id = m.author.id
    /\ db'.guild_messages[m.id].content = m.content

IsGuildMessageTask(t) ==
    tasks[t].kind = "message" /\ tasks[t].msg.channel.variant = "guild"

(***************************************************************************)
(* C16 as claimed.  When the handler of a guild message commits, the rows  *)
(* of its guild and channel carry the names of this event, its author has  *)
(* a users row, and the guild_messages row of its id references the        *)
(* channel, the author and the content of this event.                      *)
(***************************************************************************)
C16_RowCarriesThisEvent ==
    [][\A t \in DOMAIN tasks :
          (IsGuildMessageTask(t) /\ Commits(t)) =>
              C16_ParentRows(tasks[t].msg) /\ C16_RowOfThisEvent(tasks[t].msg)]_vars

(***************************************************************************)
(* C16, amended.  When the handler of a guild message commits, the rows of *)
(* its guild and channel carry the names of this event, its author has a   *)
(* users row, and there is one guild_messages row of its id: the one this  *)
(* event carried when the id was not logged before, the unchanged earlier  *)
(* row otherwise.                                                          *)
(***************************************************************************)
C16_GuildMessageLogged ==
    [][\A t \in DOMAIN tasks :
          (IsGuildMessageTask(t) /\ Commits(t)) =>
              /\ C16_ParentRows(tasks[t].msg)
              /\ IF Has(db.guild_messages, tasks[t].msg.id)
                 THEN /\ Has(db'.guild_messages, tasks[t].msg.id)
                      /\ db'.guild_messages[tasks[t].msg.id]
                           = db.guild_messages[tasks[t].msg.id]
                 ELSE C16_RowOfThisEvent(tasks[t].msg)]_vars

\* the second sighting of guild 30, channel 20 and user 1 under new names
\* was committed: the names are the new ones
C16_Witness ==
    /\ last.kind = "message" /\ last.msg = GuildMsgAgain /\ last.outcome = "committed"
    /\ db.guilds[City.id].name = "city"
    /\ db.guild_channels[Chat.id] = [guild_id |-> City.id, name |-> "chat"]
    /\ db.users[Alicia.id].name = "alicia"
    /\ db.guild_messages[GuildMsgAgain.id].content = GuildMsg.content


(***************************************************************************)
(* C17 as claimed.  When close() has completed, the pool is closed with    *)
(* every connection returned and the gateway session is closed too; from   *)
(* then on no event handler is dispatched, so none acquires from the       *)
(* closed pool.                                                            *)
(***************************************************************************)
C17_CloseTearsDownBoth ==
    /\ [](poolState = "closed" => (pool = poolSize /\ ~sessionOpen))
    /\ [][poolState = "closed" =>
             (dispatched' = dispatched /\ DOMAIN tasks' \subseteq DOMAIN tasks)]_vars
    /\ []((poolState = "closed" /\ last.outcome = "raised")
             => last.err # "interface_error")


\* the user ids a statement on a private table references
UsersReferenced(s) ==
    CASE s.q = "private_channel_query" -> {s.args.user1, s.args.user2}
      [] s.q = "private_message_query" -> {s.args.author_id}
      [] OTHER -> {}

IsPrivateMessageTask(t) ==
    tasks[t].kind = "message" /\ tasks[t].msg.channel.variant = "private"

(***************************************************************************)
(* C18 as claimed.  Whenever a handler of a private message executes its   *)
(* private_channels or private_messages insert, both participants of the   *)
(* channel and the author of the message have a users row (committed, or   *)
(* written earlier in the same transaction); every committed row of these  *)
(* tables references users that have a row; and no private-message         *)
(* transaction aborts on a foreign-key violation.                          *)
(***************************************************************************)
C18_PrivateRowsReferenceUsers ==
    /\ [][\A t \in DOMAIN tasks :
             (IsPrivateMessageTask(t) /\ Answered(t)) =>
                 UsersReferenced(Head(tasks[t].stmts)) \subseteq DOMAIN View(t).users]_vars
    /\ [](\A c \in DOMAIN db.private_channels :
             {db.private_channels[c].user1, db.private_channels[c].user2}
                 \subseteq DOMAIN db.users)
    /\ [](\A t \in DOMAIN tasks :
             IsPrivateMessageTask(t) => tasks[t].err # "foreign_key_violation")


IsPrivateLog(s) == s.q \in {"private_edit_query", "private_deletion_query"}

IsGuildLog(s) == s.q \in {"guild_edit_query", "guild_deletion_query"}

(***************************************************************************)
(* C19 as claimed.  The edit or deletion statement of a handler goes to    *)
(* the private table only for a message on a private channel and to the    *)
(* guild table only for a message on a guild channel; for a message on a   *)
(* channel that is neither, the handler executes no statement and no edit  *)
(* or deletion row is written.                                             *)
(***************************************************************************)
C19_RowsFollowMessageVariant ==
    /\ [](\A t \in DOMAIN tasks :
             tasks[t].kind \in {"edit", "delete"} =>
                 \A i \in 1..Len(Issued(tasks[t])) :
                     /\ IsPrivateLog(Issued(tasks[t])[i]) =>
                           tasks[t].msg.channel.variant = "private"
                     /\ IsGuildLog(Issued(tasks[t])[i]) =>
                           tasks[t].msg.channel.variant = "guild")
    /\ [][\A t \in DOMAIN tasks :
             (tasks[t].kind \in {"edit", "delete"}
                 /\ tasks[t].msg.channel.variant \notin {"private", "guild"})
                 => ~Answered(t) /\ AllEdits(db') = AllEdits(db)]_vars


(***************************************************************************)
(* C20.  A handler acquires one connection and never waits for the pool    *)
(* while it holds one; the connections in use never exceed the pool.  When *)
(* the database answers every statement, every dispatched handler          *)
(* eventually ends (committed, skipped or failed) with its connection      *)
(* returned, and every handler waiting in acquire eventually gets a        *)
(* connection.                                                             *)
(***************************************************************************)
C20_NoPoolDeadlock ==
    /\ [](Cardinality(Holding) <= poolSize /\ pool = poolSize - Cardinality(Holding))
    /\ [][\A t \in DOMAIN tasks :
             (t \in Holding /\ t \in DOMAIN tasks') => tasks'[t].pc # "acquire"]_vars
    /\ \A t \in 1..MaxEvents :
          (t \in DOMAIN tasks /\ tasks[t].pc = "acquire")
              ~> (t \in DOMAIN tasks /\ tasks[t].pc # "acquire")
    /\ \A t \in 1..MaxEvents :
          (t \in DOMAIN tasks) ~> (t \notin DOMAIN tasks /\ pool > 0)

\* a handler waits in acquire while every connection of the pool is in use
C20_Witness ==
    /\ pool = 0
    /\ Holding # {}
    /\ \E t \in DOMAIN tasks : tasks[t].pc = "acquire"

====
